---- MODULE Spec2Model ----
(***************************************************************************)
(* Model of src/app.py: the SmartLightingCalculator class                  *)
(* (calculate_high_brightness, validate_input, calculate_savings) and the  *)
(* schedule helper calculate_duration, and the intake flow of main: the    *)
(* steps 0 to 7 of the wizard with their buttons.                          *)
(*                                                                         *)
(* Numbers.  Python computes in binary floating point; the model computes  *)
(* the same expressions exactly, on scaled integers:                       *)
(*   - energy (kWh) inside the period loop in millionths of a kWh,         *)
(*   - a period's duration in tenths of an hour,                           *)
(*   - high_power_ratio in percent, electricity_rate in hundredths,        *)
(*   - every value that went through round(x, 2) in hundredths.            *)
(* round(x, 2) is modelled as rounding the exact value to the nearest      *)
(* hundredth, a value exactly halfway going to the even neighbour; the     *)
(* representation error of a binary float is not modelled, so the model    *)
(* and CPython can differ only where the exact value is such a halfway     *)
(* case.  The properties below are stated so that they do not depend on    *)
(* the direction a halfway case is rounded in.                             *)
(*                                                                         *)
(* Python values.  None is the empty tuple and a value v that is present   *)
(* is the one-element tuple <<v>>, so that "is None" is an equality of     *)
(* tuples.  The empty dict {} that __init__ stores as operation_schedule   *)
(* is a present schedule holding no period (iterating it yields nothing).  *)
(***************************************************************************)
EXTENDS Integers, Sequences, FiniteSets, TLC

VARIABLES data, ret, calls, out, step, periods, restarted_with

vars == <<data, ret, calls, out, step, periods, restarted_with>>

(* the part of the state that only the intake flow changes *)
session == <<step, periods, restarted_with>>

None == <<>>

Some(v) == <<v>>

Val(x) == x[1]

(***************************************************************************)
(* Bounds of the model and scales of the number representation.            *)
(***************************************************************************)
MaxCalls == 2

HoursScale == 10

PercentScale == 100

CentScale == 100

WattsPerKilowatt == 1000

(* millionths of a kWh in one hundredth of a kWh *)
MicroPerCent == (HoursScale * PercentScale * WattsPerKilowatt) \div CentScale

(***************************************************************************)
(* Exact arithmetic.  A Real is the number w + n/d (0 <= n < d) counted in *)
(* hundredths, kept in this split form so that no intermediate product     *)
(* leaves the range of 32-bit integers.                                    *)
(***************************************************************************)
FromRatio(a, den) == [w |-> a \div den, n |-> a % den, d |-> den]

Times(x, k) ==
    LET m == x.n * k
    IN  [w |-> x.w * k + (m \div x.d), n |-> m % x.d, d |-> x.d]

Negate(x) ==
    IF x.n = 0 THEN [w |-> -x.w, n |-> 0, d |-> x.d]
    ELSE [w |-> -x.w - 1, n |-> x.d - x.n, d |-> x.d]

OverPositive(x, k) ==
    [w |-> x.w \div k, n |-> (x.w % k) * x.d + x.n, d |-> x.d * k]

(* x / k for an integer k other than 0 *)
Over(x, k) == IF k > 0 THEN OverPositive(x, k) ELSE Negate(OverPositive(x, -k))

(* round(x, 2): the nearest hundredth, halfway to the even neighbour *)
Round2(x) ==
    IF 2 * x.n < x.d THEN x.w
    ELSE IF 2 * x.n > x.d THEN x.w + 1
    ELSE IF x.w % 2 = 0 THEN x.w ELSE x.w + 1

(***************************************************************************)
(* calculate_high_brightness.  The wattage is given in hundredths of a     *)
(* watt, so that values between two whole watts can be told apart; the     *)
(* returned wattage is in whole watts.                                     *)
(***************************************************************************)
(* a variant with the upper bound of each bracket exclusive *)
calculate_high_brightness_exclusive(input_wattage) ==
    IF input_wattage < 20 * CentScale THEN 10
    ELSE IF input_wattage < 24 * CentScale THEN 12
    ELSE IF input_wattage < 36 * CentScale THEN 16
    ELSE IF input_wattage < 60 * CentScale THEN 18
    ELSE 20

calculate_high_brightness(input_wattage) ==
    IF input_wattage <= 20 * CentScale THEN 10
    ELSE IF input_wattage <= 24 * CentScale THEN 12
    ELSE IF input_wattage <= 36 * CentScale THEN 16
    ELSE IF input_wattage <= 60 * CentScale THEN 18
    ELSE 20

(***************************************************************************)
(* validate_input.  A value is a number, given in hundredths, or a text    *)
(* that float() does not accept.  common_sense_rules holds each key's      *)
(* (min, max), in hundredths too.  The call returns the pair (valid,       *)
(* message); the message is modelled by the values it interpolates: none   *)
(* for '', the pair <<min_val, max_val>> for 'Input value should be        *)
(* between {min_val} and {max_val}'.                                       *)
(***************************************************************************)
Number(v) == [kind |-> "number", v |-> v]

Text == [kind |-> "text"]

common_sense_rules ==
    [total_lights             |-> <<1 * CentScale, 10000 * CentScale>>,
     original_wattage         |-> <<1 * CentScale, 400 * CentScale>>,
     electricity_rate         |-> <<10, 100>>,
     smart_light_high_wattage |-> <<5 * CentScale, 20 * CentScale>>,
     smart_light_low_wattage  |-> <<1 * CentScale, 5 * CentScale>>]

Return(valid, message) == [kind |-> "return", valid |-> valid, message |-> message]

(* a variant with the upper bound exclusive *)
validate_input_exclusive(key, value) ==
    IF key \in DOMAIN common_sense_rules
    THEN LET min_val == common_sense_rules[key][1]
             max_val == common_sense_rules[key][2]
         IN  IF value.kind # "number"
             THEN [kind |-> "raise", exc |-> "ValueError"]
             ELSE IF ~(min_val <= value.v /\ value.v < max_val)
                  THEN Return(FALSE, <<min_val, max_val>>)
                  ELSE Return(TRUE, <<>>)
    ELSE Return(TRUE, <<>>)

(* a variant that converts the value before it looks the key up *)
validate_input_converting_first(key, value) ==
    IF value.kind # "number"
    THEN [kind |-> "raise", exc |-> "ValueError"]
    ELSE IF key \in DOMAIN common_sense_rules
         THEN LET min_val == common_sense_rules[key][1]
                  max_val == common_sense_rules[key][2]
              IN  IF ~(min_val <= value.v /\ value.v <= max_val)
                  THEN Return(FALSE, <<min_val, max_val>>)
                  ELSE Return(TRUE, <<>>)
         ELSE Return(TRUE, <<>>)

validate_input(key, value) ==
    IF key \in DOMAIN common_sense_rules
    THEN LET min_val == common_sense_rules[key][1]
             max_val == common_sense_rules[key][2]
         IN  IF value.kind # "number"
             THEN [kind |-> "raise", exc |-> "ValueError"]
             ELSE IF ~(min_val <= value.v /\ value.v <= max_val)
                  THEN Return(FALSE, <<min_val, max_val>>)
                  ELSE Return(TRUE, <<>>)
    ELSE Return(TRUE, <<>>)

(***************************************************************************)
(* calculate_duration (the helper of step 5).  A time of day is a record   *)
(* of hour and minute; the returned number of hours is the exact fraction  *)
(* num / den.                                                              *)
(***************************************************************************)
MinutesPerHour == 60

HoursPerDay == 24

(* a variant that also moves an end equal to the start to the next day *)
calculate_duration_inclusive(start, end) ==
    LET start_minutes == start.hour * MinutesPerHour + start.minute
        end_minutes   == end.hour * MinutesPerHour + end.minute
        end_next_day  == IF end_minutes <= start_minutes
                         THEN end_minutes + HoursPerDay * MinutesPerHour
                         ELSE end_minutes
    IN  [num |-> end_next_day - start_minutes, den |-> MinutesPerHour]

calculate_duration(start, end) ==
    LET start_minutes == start.hour * MinutesPerHour + start.minute
        end_minutes   == end.hour * MinutesPerHour + end.minute
        end_next_day  == IF end_minutes < start_minutes
                         THEN end_minutes + HoursPerDay * MinutesPerHour
                         ELSE end_minutes
    IN  [num |-> end_next_day - start_minutes, den |-> MinutesPerHour]

(***************************************************************************)
(* SmartLightingCalculator.__init__: the calculator's data.                *)
(***************************************************************************)
EmptyDict == Some(<<>>)

InitData ==
    [project_name             |-> None,
     total_lights             |-> None,
     original_wattage         |-> None,
     electricity_rate         |-> None,
     operation_schedule       |-> EmptyDict,
     smart_light_high_wattage |-> None,
     smart_light_low_wattage  |-> None,
     high_power_ratio         |-> None]

Fields == DOMAIN InitData

(***************************************************************************)
(* calculate_savings, the body of the loop over the periods.  Energies are *)
(* in millionths of a kWh and hours in units of                            *)
(* 1 / (HoursScale * PercentScale) of an hour, both exact.                 *)
(***************************************************************************)
DefaultHighPowerRatio == 25

get_high_power_ratio(d) ==
    IF "high_power_ratio" \in DOMAIN d
    THEN Val(d.high_power_ratio) ELSE DefaultHighPowerRatio

low_power_ratio(high_power_ratio) == PercentScale - high_power_ratio

period_original(d, period) ==
    period.lights * Val(d.original_wattage) * period.duration * PercentScale

high_hours(d, period) ==
    IF period.lights > 0
    THEN period.duration * get_high_power_ratio(d) ELSE 0

low_hours(d, period) ==
    IF period.lights > 0
    THEN period.duration * low_power_ratio(get_high_power_ratio(d)) ELSE 0

period_high(d, period) ==
    IF period.lights > 0
    THEN period.lights * Val(d.smart_light_high_wattage) * high_hours(d, period)
    ELSE 0

(* a variant that charges the low wattage for the high-power hours *)
period_low_high_hours(d, period) ==
    IF period.lights > 0
    THEN period.lights * Val(d.smart_light_low_wattage) * high_hours(d, period)
    ELSE 0

period_low(d, period) ==
    IF period.lights > 0
    THEN period.lights * Val(d.smart_light_low_wattage) * low_hours(d, period)
    ELSE 0

period_smart(d, period) ==
    IF period.lights > 0
    THEN period_high(d, period) + period_low(d, period) ELSE 0

Kwh(micro) == FromRatio(micro, MicroPerCent)

Hours(h) == FromRatio(h, (HoursScale * PercentScale) \div CentScale)

(* the values a period's detail record reports, each through round(x, 2) *)
(* a variant that reports the nominal split whether lights are on or not *)
smart_high_hours_nominal(d, period) ==
    Round2(Hours(period.duration * get_high_power_ratio(d)))

smart_high_hours(d, period) ==
    Round2(Hours(IF period.lights > 0 THEN high_hours(d, period) ELSE 0))

smart_low_hours(d, period) ==
    Round2(Hours(IF period.lights > 0 THEN low_hours(d, period) ELSE 0))

period_detail(d, period) ==
    [period                  |-> Round2(FromRatio(period.duration * CentScale, HoursScale)),
     lights_on               |-> period.lights,
     original_consumption    |-> Round2(Kwh(period_original(d, period))),
     smart_high_hours        |-> smart_high_hours(d, period),
     smart_low_hours         |-> smart_low_hours(d, period),
     smart_high_consumption  |-> Round2(Kwh(period_high(d, period))),
     smart_low_consumption   |-> Round2(Kwh(period_low(d, period))),
     smart_total_consumption |-> Round2(Kwh(period_smart(d, period))),
     period_savings          |-> Round2(Kwh(period_original(d, period)
                                            - period_smart(d, period)))]

(* a variant that assigns where the loop adds *)
accumulate_last(total, amount) == amount

(* total += amount, the two running totals of the loop *)
accumulate(total, amount) == total + amount

(* the state of the loop after the first k periods of the schedule *)
RECURSIVE loop(_, _)
loop(d, k) ==
    IF k = 0
    THEN [period_details             |-> <<>>,
          original_daily_consumption |-> 0,
          smart_daily_consumption    |-> 0]
    ELSE LET before == loop(d, k - 1)
             period == Val(d.operation_schedule)[k]
         IN  [period_details |->
                  Append(before.period_details, period_detail(d, period)),
              original_daily_consumption |->
                  accumulate(before.original_daily_consumption,
                             period_original(d, period)),
              smart_daily_consumption |->
                  accumulate(before.smart_daily_consumption,
                             period_smart(d, period))]

(***************************************************************************)
(* calculate_savings: what the call returns for the data d.  The returned  *)
(* value is None, a result record, or the exception the division raises.   *)
(***************************************************************************)
ReturnNone == [kind |-> "None"]

Raise(exc) == [kind |-> "raise", exc |-> exc]

has_none(d) == \E f \in DOMAIN d : d[f] = None

DaysPerYear == 365

Years == 6

(* a variant that reports no savings when the smart system uses more *)
daily_savings_kwh_clamped(after) ==
    Kwh(IF after.original_daily_consumption > after.smart_daily_consumption
        THEN after.original_daily_consumption - after.smart_daily_consumption
        ELSE 0)

daily_savings_kwh(after) ==
    Kwh(after.original_daily_consumption - after.smart_daily_consumption)

(* a variant that derives the annual value from the rounded daily value *)
annual_savings_kwh_of_rounded(daily) == Times(FromRatio(Round2(daily), 1), DaysPerYear)

annual_savings_kwh(daily) == Times(daily, DaysPerYear)

annual_savings_sgd(d, annual_kwh) ==
    Over(Times(annual_kwh, Val(d.electricity_rate)), CentScale)

totals(d) ==
    LET after      == loop(d, Len(Val(d.operation_schedule)))
        daily      == daily_savings_kwh(after)
        annual_kwh == annual_savings_kwh(daily)
        annual_sgd == annual_savings_sgd(d, annual_kwh)
    IN  IF Val(d.total_lights) = 0
        THEN Raise("ZeroDivisionError")
        ELSE [kind                       |-> "result",
              daily_savings_kwh          |-> Round2(daily),
              annual_savings_kwh         |-> Round2(annual_kwh),
              annual_savings_sgd         |-> Round2(annual_sgd),
              per_light_annual_savings   |->
                  Round2(Over(annual_sgd, Val(d.total_lights))),
              six_year_savings           |-> Round2(Times(annual_sgd, Years)),
              period_details             |-> after.period_details,
              original_daily_consumption |-> Round2(Kwh(after.original_daily_consumption)),
              smart_daily_consumption    |-> Round2(Kwh(after.smart_daily_consumption))]

calculate_savings(d) == IF has_none(d) THEN ReturnNone ELSE totals(d)

(***************************************************************************)
(* The parameter sets the engine is run on.  A complete set has every      *)
(* field present; Unset(p, f) is p with field f as __init__ left it.       *)
(***************************************************************************)
MaxPeriods == 5

PeriodChoices ==
    {[duration |-> 240, lights |-> 3],
     [duration |-> 60,  lights |-> 3],
     [duration |-> 120, lights |-> 0],
     [duration |-> 1,   lights |-> 3],
     [duration |-> 60,  lights |-> 1]}

Schedules == UNION {[1..n -> PeriodChoices] : n \in 1..MaxPeriods}

ShortSchedules == UNION {[1..n -> PeriodChoices] : n \in 1..2}

ParameterSetsOver(schedules) ==
    [project_name             : {Some("P")},
     total_lights             : {Some(7)},
     original_wattage         : {Some(1), Some(18)},
     electricity_rate         : {Some(30)},
     operation_schedule       : {Some(s) : s \in schedules},
     smart_light_high_wattage : {Some(10), Some(20)},
     smart_light_low_wattage  : {Some(2)},
     high_power_ratio         : {Some(10), Some(25)}]

ParameterSets == ParameterSetsOver(Schedules)

Unset(p, f) == [p EXCEPT ![f] = InitData[f]]

IncompleteSets == {Unset(p, f) : p \in ParameterSetsOver(ShortSchedules), f \in Fields}

(* complete sets whose total_lights is outside the validated range *)
NonPositiveLights == {0, -7}

NonPositiveLightsSets ==
    {[p EXCEPT !.total_lights = Some(n)] :
        p \in ParameterSetsOver(ShortSchedules), n \in NonPositiveLights}

Idle == [kind |-> "idle"]

NoCall == [call |-> "none"]

(***************************************************************************)
(* The engine run on a parameter set: calculate_savings is called, again   *)
(* and again, on a calculator whose data was filled in before.             *)
(***************************************************************************)
InitEngine ==
    /\ data \in ParameterSets \cup IncompleteSets \cup NonPositiveLightsSets
                \cup {InitData}
    /\ ret = Idle
    /\ calls = 0
    /\ out = NoCall
    /\ step = 0
    /\ periods = 1
    /\ restarted_with = None

(* a variant of the call that uses up the schedule it iterates *)
CallCalculateSavingsConsuming ==
    /\ calls < MaxCalls
    /\ ret' = calculate_savings(data)
    /\ calls' = calls + 1
    /\ data' = IF has_none(data) THEN data
               ELSE [data EXCEPT !.operation_schedule = EmptyDict]
    /\ out' = out
    /\ UNCHANGED session

CallCalculateSavings ==
    /\ calls < MaxCalls
    /\ ret' = calculate_savings(data)
    /\ calls' = calls + 1
    /\ UNCHANGED <<data, out, session>>

NextEngine == CallCalculateSavings

SpecEngine == InitEngine /\ [][NextEngine]_vars

(***************************************************************************)
(* The helpers called on their own, on a freshly constructed calculator:   *)
(* each step is one call, on arguments drawn from the sets below, and      *)
(* leaves in out the call and what it returned.                            *)
(***************************************************************************)
KeyChoices == Fields

ValueChoices ==
    {Number(v) : v \in {-100, 0, 9, 10, 11, 50, 99, 100, 101, 150, 499, 500, 501,
                        1999, 2000, 2001, 39999, 40000, 40001,
                        999999, 1000000, 1000001}}
    \cup {Text}

WattageChoices ==
    {0, 100, 1999, 2000, 2001, 2399, 2400, 2401, 3599, 3600, 3601,
     5999, 6000, 6001, 20000, 40000, 100000}

TimeChoices == [hour : {0, 1, 8, 12, 23}, minute : {0, 1, 30, 59}]

InitHelpers ==
    /\ data = InitData
    /\ ret = Idle
    /\ calls = 0
    /\ out = NoCall
    /\ step = 0
    /\ periods = 1
    /\ restarted_with = None

CallValidateInput(key, value) ==
    /\ out' = [call |-> "validate_input", key |-> key, value |-> value,
               result |-> validate_input(key, value)]
    /\ UNCHANGED <<data, ret, calls, session>>

CallCalculateHighBrightness(input_wattage) ==
    /\ out' = [call |-> "calculate_high_brightness", input_wattage |-> input_wattage,
               result |-> calculate_high_brightness(input_wattage)]
    /\ UNCHANGED <<data, ret, calls, session>>

CallCalculateDuration(start, end) ==
    /\ out' = [call |-> "calculate_duration", start |-> start, end |-> end,
               result |-> calculate_duration(start, end)]
    /\ UNCHANGED <<data, ret, calls, session>>

NextHelpers ==
    \/ \E key \in KeyChoices, value \in ValueChoices : CallValidateInput(key, value)
    \/ \E input_wattage \in WattageChoices : CallCalculateHighBrightness(input_wattage)
    \/ \E start, end \in TimeChoices : CallCalculateDuration(start, end)

SpecHelpers == InitHelpers /\ [][NextHelpers]_vars

(***************************************************************************)
(* The intake flow of main.  st.session_state keeps step, periods and the  *)
(* calculator (its data) from one script run to the next; every button is  *)
(* an action that runs the handler of the step it is on.  What the user    *)
(* typed into the widgets of the step is the action's parameter, taken     *)
(* from the range the widget allows.  ret is the value of savings in the   *)
(* script run that last called calculate_savings (a local of that run, so  *)
(* every other run leaves it Idle); out is what the last run was given and *)
(* what it showed: a rejected Next of step 5 shows the total in its error  *)
(* message, an accepted one keeps the periods_data the schedule was made   *)
(* from.  restarted_with remembers the total_lights the data held when     *)
(* Calculate Again was last pressed.                                       *)
(***************************************************************************)
time(hour, minute) == [hour |-> hour, minute |-> minute]

ProjectNameInputs == {"", "P"}

TotalLightsInputs == {1, 3}

OriginalWattageInputs == {9, 10, 200, 201}

ElectricityRateInputs == {30}

(* round(x, 1) of a duration, in tenths of an hour *)
Round1(q) == Round2(FromRatio(q.num * HoursScale, q.den))

(* what the widgets of period i show before the user touches them *)
default_period(i, total_lights) ==
    [start  |-> time(0, 0),
     end    |-> IF i = 1 THEN time(23, 59) ELSE time(0, 0),
     lights |-> total_lights]

(* what the user sets the widgets of the first periods to; lights is       *)
(* between the min_value 0 and the max_value total_lights of its           *)
(* number_input.  The first entry is the widgets left as they are.         *)
EditedPeriods(total_lights) ==
    LET Period(start, end, lights) ==
            [start |-> start, end |-> end, lights |-> lights]
        midnight == time(0, 0)
        noon     == time(12, 0)
    IN  {<<Period(midnight, time(23, 59), total_lights)>>,
         <<Period(midnight, time(23, 59), 0)>>,
         <<Period(midnight, noon, total_lights)>>,
         <<Period(midnight, noon, total_lights), Period(midnight, noon, total_lights)>>,
         <<Period(midnight, noon, total_lights), Period(noon, midnight, 0)>>,
         <<Period(midnight, time(4, 12), total_lights),
           Period(time(4, 12), time(0, 6), 0)>>,
         <<Period(midnight, time(23, 59), total_lights),
           Period(midnight, time(23, 59), 0)>>}

(* the widgets of n periods: the edited ones, the others at their defaults *)
WidgetValues(n, total_lights) ==
    {[i \in 1..n |-> IF i <= Len(e) THEN e[i]
                     ELSE default_period(i, total_lights)] :
        e \in {x \in EditedPeriods(total_lights) : Len(x) <= n}}

(* the loop over the periods: periods_data and total_duration *)
periods_data(widgets) ==
    [i \in 1..Len(widgets) |->
        [start    |-> widgets[i].start,
         end      |-> widgets[i].end,
         duration |-> Round1(calculate_duration(widgets[i].start, widgets[i].end)),
         lights   |-> widgets[i].lights]]

RECURSIVE total_duration(_, _)
total_duration(pd, k) ==
    IF k = 0 THEN 0 ELSE total_duration(pd, k - 1) + pd[k].duration

schedule(pd) ==
    [i \in 1..Len(pd) |-> [duration |-> pd[i].duration, lights |-> pd[i].lights]]

(* a variant of the test without the absolute value *)
exceeds_tolerance_signed(total) ==
    IF total - HoursPerDay * HoursScale > 1 THEN {TRUE}
    ELSE IF total - HoursPerDay * HoursScale < 1 THEN {FALSE}
    ELSE {TRUE, FALSE}

(* abs(total_duration - 24) > 0.1, total in tenths of an hour.  The sum is *)
(* a binary float: a total exactly 0.1 away from 24 tests either way       *)
(* depending on the durations added (4.2 + 19.9 passes, 12.0 + 12.1 does   *)
(* not), so the test there has both outcomes; every other total is far     *)
(* from the threshold and has one.                                         *)
exceeds_tolerance(total) ==
    LET off == IF total < HoursPerDay * HoursScale
               THEN HoursPerDay * HoursScale - total
               ELSE total - HoursPerDay * HoursScale
    IN  IF off > 1 THEN {TRUE}
        ELSE IF off < 1 THEN {FALSE}
        ELSE {TRUE, FALSE}

(* the widgets of step 6 *)
PowerInputs(default_high_power) ==
    {[high_power |-> 5,  low_power |-> 1, slider |-> 10],
     [high_power |-> default_high_power, low_power |-> 2, slider |-> 25],
     [high_power |-> 20, low_power |-> 5, slider |-> 50]}

LightPrice == 85

InstallationCost == 5

(* the Direct Purchase payback period, as a fraction of hundredths *)
payback_period(savings, total_lights) ==
    LET initial_investment == LightPrice * total_lights
        total_installation == InstallationCost * total_lights
    IN  IF savings.annual_savings_sgd = 0
        THEN Raise("ZeroDivisionError")
        ELSE [kind |-> "value",
              num  |-> (initial_investment + total_installation) * CentScale,
              den  |-> savings.annual_savings_sgd]

(* what the script run of step 7 shows for the value of savings *)
render(savings, d) ==
    IF savings.kind = "result" THEN payback_period(savings, Val(d.total_lights))
    ELSE IF savings = ReturnNone THEN [kind |-> "error"]
    ELSE savings

InitWizard ==
    /\ data = InitData
    /\ ret = Idle
    /\ calls = 0
    /\ out = NoCall
    /\ step = 0
    /\ periods = 1
    /\ restarted_with = None

Previous(at) ==
    /\ step = at
    /\ step' = step - 1
    /\ out' = [call |-> "Previous", at |-> at]
    /\ ret' = Idle
    /\ UNCHANGED <<data, calls, periods, restarted_with>>

Step0Next(project_name) ==
    /\ step = 0
    /\ LET accepted == project_name # ""
       IN  /\ data' = IF accepted
                      THEN [data EXCEPT !.project_name = Some(project_name)]
                      ELSE data
           /\ step' = IF accepted THEN step + 1 ELSE step
           /\ out' = [call |-> "Next", at |-> 0, accepted |-> accepted,
                      project_name |-> project_name]
    /\ ret' = Idle
    /\ UNCHANGED <<calls, periods, restarted_with>>

Step1Previous == Previous(1)

Step1Next(total_lights) ==
    /\ step = 1
    /\ LET accepted == validate_input("total_lights",
                                      Number(total_lights * CentScale)).valid
       IN  /\ data' = IF accepted
                      THEN [data EXCEPT !.total_lights = Some(total_lights)]
                      ELSE data
           /\ step' = IF accepted THEN step + 1 ELSE step
           /\ out' = [call |-> "Next", at |-> 1, accepted |-> accepted,
                      total_lights |-> total_lights]
    /\ ret' = Idle
    /\ UNCHANGED <<calls, periods, restarted_with>>

Step2Previous == Previous(2)

(* a variant that stores the wattage before it checks the supported range *)
Step2NextStoringFirst(original_wattage) ==
    /\ step = 2
    /\ LET supported == ~(original_wattage < 10 \/ original_wattage > 200)
           accepted  == supported
                        /\ validate_input("original_wattage",
                                          Number(original_wattage * CentScale)).valid
           high_wattage == calculate_high_brightness(original_wattage * CentScale)
       IN  /\ data' = IF accepted
                      THEN [data EXCEPT !.original_wattage = Some(original_wattage),
                                        !.smart_light_high_wattage = Some(high_wattage),
                                        !.smart_light_low_wattage = Some(2)]
                      ELSE [data EXCEPT !.original_wattage = Some(original_wattage)]
           /\ step' = IF accepted THEN step + 1 ELSE step
           /\ out' = [call |-> "Next", at |-> 2, accepted |-> accepted,
                      original_wattage |-> original_wattage]
    /\ ret' = Idle
    /\ UNCHANGED <<calls, periods, restarted_with>>

Step2Next(original_wattage) ==
    /\ step = 2
    /\ LET supported == ~(original_wattage < 10 \/ original_wattage > 200)
           accepted  == supported
                        /\ validate_input("original_wattage",
                                          Number(original_wattage * CentScale)).valid
           high_wattage == calculate_high_brightness(original_wattage * CentScale)
       IN  /\ data' = IF accepted
                      THEN [data EXCEPT !.original_wattage = Some(original_wattage),
                                        !.smart_light_high_wattage = Some(high_wattage),
                                        !.smart_light_low_wattage = Some(2)]
                      ELSE data
           /\ step' = IF accepted THEN step + 1 ELSE step
           /\ out' = [call |-> "Next", at |-> 2, accepted |-> accepted,
                      original_wattage |-> original_wattage]
    /\ ret' = Idle
    /\ UNCHANGED <<calls, periods, restarted_with>>

Step3Previous == Previous(3)

(* a variant that moves on without storing the rate *)
Step3NextNotStoring(electricity_rate) ==
    /\ step = 3
    /\ LET accepted == validate_input("electricity_rate",
                                      Number(electricity_rate)).valid
       IN  /\ data' = data
           /\ step' = IF accepted THEN step + 1 ELSE step
           /\ out' = [call |-> "Next", at |-> 3, accepted |-> accepted,
                      electricity_rate |-> electricity_rate]
    /\ ret' = Idle
    /\ UNCHANGED <<calls, periods, restarted_with>>

Step3Next(electricity_rate) ==
    /\ step = 3
    /\ LET accepted == validate_input("electricity_rate",
                                      Number(electricity_rate)).valid
       IN  /\ data' = IF accepted
                      THEN [data EXCEPT !.electricity_rate = Some(electricity_rate)]
                      ELSE data
           /\ step' = IF accepted THEN step + 1 ELSE step
           /\ out' = [call |-> "Next", at |-> 3, accepted |-> accepted,
                      electricity_rate |-> electricity_rate]
    /\ ret' = Idle
    /\ UNCHANGED <<calls, periods, restarted_with>>

(* a variant of step 4 that moves on past the schedule step *)
Step4RerunPastSchedule ==
    /\ step = 4
    /\ step' = step + 2
    /\ out' = [call |-> "rerun", at |-> 4]
    /\ ret' = Idle
    /\ UNCHANGED <<data, calls, periods, restarted_with>>

(* step 4 shows nothing and moves on *)
Step4Rerun ==
    /\ step = 4
    /\ step' = step + 1
    /\ out' = [call |-> "rerun", at |-> 4]
    /\ ret' = Idle
    /\ UNCHANGED <<data, calls, periods, restarted_with>>

Step5AddPeriod ==
    /\ step = 5
    /\ periods < MaxPeriods
    /\ periods' = periods + 1
    /\ out' = [call |-> "Add Period", at |-> 5]
    /\ ret' = Idle
    /\ UNCHANGED <<data, calls, step, restarted_with>>

Step5RemovePeriod ==
    /\ step = 5
    /\ periods > 1
    /\ periods' = periods - 1
    /\ out' = [call |-> "Remove Period", at |-> 5]
    /\ ret' = Idle
    /\ UNCHANGED <<data, calls, step, restarted_with>>

Step5Next ==
    /\ step = 5
    /\ \E widgets \in WidgetValues(periods, Val(data.total_lights)) :
           LET pd    == periods_data(widgets)
               total == total_duration(pd, Len(pd))
           IN  \E rejected \in exceeds_tolerance(total) :
                   /\ data' = IF rejected THEN data
                              ELSE [data EXCEPT
                                       !.operation_schedule = Some(schedule(pd))]
                   /\ step' = IF rejected THEN step ELSE step + 1
                   /\ out' = IF rejected
                             THEN [call |-> "Next", at |-> 5, accepted |-> FALSE,
                                   total_duration |-> total]
                             ELSE [call |-> "Next", at |-> 5, accepted |-> TRUE,
                                   total_duration |-> total, periods_data |-> pd]
    /\ ret' = Idle
    /\ UNCHANGED <<calls, periods, restarted_with>>

Step6Previous == Previous(6)

Step6Calculate ==
    /\ step = 6
    /\ \E input \in PowerInputs(calculate_high_brightness(
                                    Val(data.original_wattage) * CentScale)) :
           /\ data' = [data EXCEPT
                          !.smart_light_high_wattage = Some(input.high_power),
                          !.smart_light_low_wattage = Some(input.low_power),
                          !.high_power_ratio = Some(input.slider)]
           /\ out' = [call |-> "Calculate Energy Savings", at |-> 6,
                      input |-> input]
    /\ step' = step + 1
    /\ ret' = Idle
    /\ UNCHANGED <<calls, periods, restarted_with>>

(* the script run that shows step 7 *)
Step7Render ==
    /\ step = 7
    /\ ret' = calculate_savings(data)
    /\ out' = [call |-> "render", at |-> 7, shown |-> render(ret', data)]
    /\ UNCHANGED <<data, calls, step, periods, restarted_with>>

(* the button is on the page only when the run got to the end of it *)
Step7CalculateAgain ==
    /\ step = 7
    /\ out.call = "render"
    /\ out.shown.kind = "value"
    /\ step' = 0
    /\ restarted_with' = data.total_lights
    /\ out' = [call |-> "Calculate Again", at |-> 7]
    /\ ret' = Idle
    /\ UNCHANGED <<data, calls, periods>>

NextWizard ==
    \/ \E project_name \in ProjectNameInputs : Step0Next(project_name)
    \/ Step1Previous
    \/ \E total_lights \in TotalLightsInputs : Step1Next(total_lights)
    \/ Step2Previous
    \/ \E original_wattage \in OriginalWattageInputs : Step2Next(original_wattage)
    \/ Step3Previous
    \/ \E electricity_rate \in ElectricityRateInputs : Step3Next(electricity_rate)
    \/ Step4Rerun
    \/ Step5AddPeriod
    \/ Step5RemovePeriod
    \/ Step5Next
    \/ Step6Previous
    \/ Step6Calculate
    \/ Step7Render
    \/ Step7CalculateAgain

SpecWizard == InitWizard /\ [][NextWizard]_vars

(***************************************************************************)
(* Vocabulary of the properties of calculate_savings.                      *)
(***************************************************************************)
Abs(x) == IF x < 0 THEN -x ELSE x

(* r is a hundredth nearest to the exact value x (either one at a halfway) *)
Nearest(r, x) ==
    \/ r = x.w     /\ 2 * x.n <= x.d
    \/ r = x.w + 1 /\ 2 * x.n >= x.d

Returned == ret # Idle

IsResult == ret.kind = "result"

(* field f of the data is as __init__ left it *)
IsUnset(f) == data[f] = InitData[f]

Schedule == Val(data.operation_schedule)

(* the exact daily consumptions of the first k periods, in kWh times       *)
(* HoursScale * PercentScale * WattsPerKilowatt, from the parameters alone *)
RECURSIVE ExactOriginal(_)
ExactOriginal(k) ==
    IF k = 0 THEN 0
    ELSE ExactOriginal(k - 1)
         + Schedule[k].lights * Val(data.original_wattage)
           * Schedule[k].duration * PercentScale

RECURSIVE ExactSmart(_)
ExactSmart(k) ==
    IF k = 0 THEN 0
    ELSE ExactSmart(k - 1)
         + Schedule[k].lights * Schedule[k].duration
           * (Val(data.smart_light_high_wattage) * Val(data.high_power_ratio)
              + Val(data.smart_light_low_wattage)
                * (PercentScale - Val(data.high_power_ratio)))

(* the sum of one reported field over the first k period details *)
RECURSIVE SumReported(_, _)
SumReported(field, k) ==
    IF k = 0 THEN 0
    ELSE SumReported(field, k - 1) + ret.period_details[k][field]

TotalDuration(s) ==
    LET RECURSIVE Sum(_)
        Sum(k) == IF k = 0 THEN 0 ELSE Sum(k - 1) + s[k].duration
    IN  Sum(Len(s))

(* 1 to 5 periods whose durations sum to 24 hours within 0.1 hour *)
ValidSchedule(s) ==
    /\ Len(s) \in 1..MaxPeriods
    /\ Abs(TotalDuration(s) - 24 * HoursScale) <= 1

(***************************************************************************)
(* C1.  calculate_savings returns None whenever exactly one required field *)
(* of the data is unset (as __init__ left it) and all the others are set.  *)
(* Fails for operation_schedule: __init__ stores {} there, not None, the   *)
(* test "None in self.data.values()" passes and a result of zeros is       *)
(* computed from an empty schedule.                                        *)
(***************************************************************************)
C1_UnavailableWhenOneFieldUnset ==
    (Returned /\ \E f \in Fields :
                    /\ IsUnset(f)
                    /\ \A g \in Fields \ {f} : ~IsUnset(g))
        => ret = ReturnNone

(* the part of C1 that holds: a field that is None makes the call return   *)
(* None, whatever the other fields are                                     *)
C1_NoneWhenAFieldIsNone ==
    (Returned /\ \E f \in Fields : data[f] = None) => ret = ReturnNone

(***************************************************************************)
(* C2.  For a period with lights_on > 0 the detail record reports, each    *)
(* rounded to 2 decimals: lights * original_wattage * duration / 1000;     *)
(* duration * ratio and duration * (1 - ratio) hours; lights * high        *)
(* wattage * high_hours / 1000; lights * low wattage * low_hours / 1000;   *)
(* their sum; and original minus smart.                                    *)
(***************************************************************************)
C2_PeriodFormulas ==
    IsResult =>
        \A i \in 1..Len(Schedule) :
            LET p        == Schedule[i]
                det      == ret.period_details[i]
                ratio    == Val(data.high_power_ratio)
                hoursDen == HoursScale * PercentScale
                kwhDen   == hoursDen * WattsPerKilowatt
                original == p.lights * Val(data.original_wattage)
                            * p.duration * PercentScale
                highH    == p.duration * ratio
                lowH     == p.duration * (PercentScale - ratio)
                high     == p.lights * Val(data.smart_light_high_wattage) * highH
                low      == p.lights * Val(data.smart_light_low_wattage) * lowH
                Cents(num, den) == FromRatio(num * CentScale, den)
            IN  p.lights > 0 =>
                    /\ det.lights_on = p.lights
                    /\ Nearest(det.original_consumption, Cents(original, kwhDen))
                    /\ Nearest(det.smart_high_hours, Cents(highH, hoursDen))
                    /\ Nearest(det.smart_low_hours, Cents(lowH, hoursDen))
                    /\ Nearest(det.smart_high_consumption, Cents(high, kwhDen))
                    /\ Nearest(det.smart_low_consumption, Cents(low, kwhDen))
                    /\ Nearest(det.smart_total_consumption, Cents(high + low, kwhDen))
                    /\ Nearest(det.period_savings, Cents(original - high - low, kwhDen))

(* a result with a lit period whose high and low consumption differ *)
C2_Witness ==
    /\ IsResult
    /\ \E i \in 1..Len(Schedule) :
           /\ Schedule[i].lights > 0
           /\ ret.period_details[i].smart_low_consumption > 0
           /\ ret.period_details[i].smart_low_consumption
                  # ret.period_details[i].smart_high_consumption
           /\ ret.period_details[i].smart_low_hours
                  # ret.period_details[i].smart_high_hours

(***************************************************************************)
(* C3.  Each final field is the 2-decimal rounding of a value derived from *)
(* the unrounded totals: daily = original - smart, annual kWh = daily *    *)
(* 365, annual SGD = annual kWh * rate, per light = annual SGD /           *)
(* total_lights, six years = annual SGD * 6.                               *)
(***************************************************************************)
C3_FinalFieldsFromUnroundedTotals ==
    IsResult =>
        LET n      == Len(Schedule)
            daily  == FromRatio((ExactOriginal(n) - ExactSmart(n)) * CentScale,
                                HoursScale * PercentScale * WattsPerKilowatt)
            annual == Times(daily, 365)
            sgd    == Over(Times(annual, Val(data.electricity_rate)), CentScale)
        IN  /\ Nearest(ret.daily_savings_kwh, daily)
            /\ Nearest(ret.annual_savings_kwh, annual)
            /\ Nearest(ret.annual_savings_sgd, sgd)
            /\ Nearest(ret.per_light_annual_savings, Over(sgd, Val(data.total_lights)))
            /\ Nearest(ret.six_year_savings, Times(sgd, 6))

(* a result whose annual and six-year fields differ from what the rounded  *)
(* daily and annual fields would give                                      *)
C3_Witness ==
    /\ IsResult
    /\ ret.annual_savings_kwh # ret.daily_savings_kwh * 365
    /\ ret.six_year_savings # ret.annual_savings_sgd * 6
    /\ ret.per_light_annual_savings * Val(data.total_lights) # ret.annual_savings_sgd

(***************************************************************************)
(* C4.  A period with lights_on = 0 reports high_hours, low_hours, high,   *)
(* low and total smart consumption all exactly 0, whatever the ratio and   *)
(* the wattages, and adds 0 to both daily totals.                          *)
(***************************************************************************)
LitOnly(s) == SelectSeq(s, LAMBDA p : p.lights > 0)

C4_DarkPeriodIsZero ==
    IsResult =>
        /\ \A i \in 1..Len(Schedule) :
               Schedule[i].lights = 0 =>
                   /\ ret.period_details[i].smart_high_hours = 0
                   /\ ret.period_details[i].smart_low_hours = 0
                   /\ ret.period_details[i].smart_high_consumption = 0
                   /\ ret.period_details[i].smart_low_consumption = 0
                   /\ ret.period_details[i].smart_total_consumption = 0
        /\ LET lit == calculate_savings(
                          [data EXCEPT !.operation_schedule = Some(LitOnly(Schedule))])
           IN  /\ ret.original_daily_consumption = lit.original_daily_consumption
               /\ ret.smart_daily_consumption = lit.smart_daily_consumption

(* a result for a schedule with a dark period of some length beside a lit one *)
C4_Witness ==
    /\ IsResult
    /\ \E i, j \in 1..Len(Schedule) :
           /\ Schedule[i].lights = 0
           /\ Schedule[i].duration > 0
           /\ Schedule[j].lights > 0
           /\ ret.period_details[j].smart_high_hours > 0

(***************************************************************************)
(* C5.  For a valid schedule the reported per-period original_consumption  *)
(* values sum to the reported original_daily_consumption, and the reported *)
(* smart_total_consumption values to the reported smart_daily_consumption. *)
(* As claimed: to within 0.01 kWh.  As it holds: to within 0.005 kWh for   *)
(* each period plus 0.005 kWh for the total.                               *)
(***************************************************************************)
OriginalGap ==
    Abs(SumReported("original_consumption", Len(ret.period_details))
        - ret.original_daily_consumption)

SmartGap ==
    Abs(SumReported("smart_total_consumption", Len(ret.period_details))
        - ret.smart_daily_consumption)

C5_SumsWithinOneCent ==
    (IsResult /\ ValidSchedule(Schedule)) => (OriginalGap <= 1 /\ SmartGap <= 1)

C5_SumsWithinHalfCentPerRounding ==
    (IsResult /\ ValidSchedule(Schedule)) =>
        /\ Len(ret.period_details) = Len(Schedule)
        /\ 2 * OriginalGap <= Len(Schedule) + 1
        /\ 2 * SmartGap <= Len(Schedule) + 1

(* a valid schedule of several periods whose reported values are 0.02 off  *)
C5_Witness ==
    /\ IsResult
    /\ ValidSchedule(Schedule)
    /\ Len(Schedule) >= 4
    /\ OriginalGap = 2

(***************************************************************************)
(* C10.  Calling calculate_savings again on the same fully populated data  *)
(* returns the identical result, and no call changes a field of the data.  *)
(***************************************************************************)
C10_Idempotent ==
    [][/\ data' = data
       /\ (IsResult /\ calls' > calls) => ret' = ret]_vars

(* the second call in a row has returned a result *)
C10_Witness == IsResult /\ calls >= 2

(***************************************************************************)
(* Vocabulary of the properties of the helpers.                            *)
(***************************************************************************)
Called(name) == out.call = name

(* the bounds table as documented, in hundredths *)
DocumentedBounds ==
    [total_lights             |-> <<100, 1000000>>,
     original_wattage         |-> <<100, 40000>>,
     electricity_rate         |-> <<10, 100>>,
     smart_light_high_wattage |-> <<500, 2000>>,
     smart_light_low_wattage  |-> <<100, 500>>]

Minutes(t) == 60 * t.hour + t.minute

At(h, m) == [hour |-> h, minute |-> m]

(***************************************************************************)
(* C6.  validate_input(key, value) for a key of the bounds table succeeds  *)
(* exactly when min <= value <= max, both bounds inclusive, and otherwise  *)
(* fails with a message carrying that key's min and max; electricity_rate  *)
(* 1.5 fails with bounds (0.1, 1.0) and 0.5 succeeds.                      *)
(***************************************************************************)
C6_ValidateInclusiveRange ==
    (/\ Called("validate_input")
     /\ out.key \in DOMAIN DocumentedBounds
     /\ out.value.kind = "number") =>
        LET min_val == DocumentedBounds[out.key][1]
            max_val == DocumentedBounds[out.key][2]
            inside  == min_val <= out.value.v /\ out.value.v <= max_val
        IN  /\ out.result.kind = "return"
            /\ out.result.valid <=> inside
            /\ inside => out.result.message = <<>>
            /\ ~inside => out.result.message = <<min_val, max_val>>
            /\ (out.key = "electricity_rate" /\ out.value.v = 150)
                   => (~out.result.valid /\ out.result.message = <<10, 100>>)
            /\ (out.key = "electricity_rate" /\ out.value.v = 50)
                   => out.result.valid

(* electricity_rate 1.5 was validated and refused with its bounds *)
C6_Witness ==
    /\ Called("validate_input")
    /\ out.key = "electricity_rate"
    /\ out.value = Number(150)
    /\ out.result = Return(FALSE, <<10, 100>>)

(***************************************************************************)
(* C7.  validate_input(key, value) for a key that is not in the bounds     *)
(* table succeeds for every value, a non-numeric one included, and the     *)
(* call changes no state of the calculator.                                *)
(***************************************************************************)
C7_UnknownKeyPassesThrough ==
    /\ []((Called("validate_input") /\ out.key \notin DOMAIN DocumentedBounds)
              => out.result = Return(TRUE, <<>>))
    /\ [][out'.call = "validate_input" => UNCHANGED <<data, ret, calls>>]_vars

(* a text was validated as project_name and accepted *)
C7_Witness ==
    /\ Called("validate_input")
    /\ out.key = "project_name"
    /\ out.value = Text
    /\ out.result.kind = "return"
    /\ out.result.valid

(***************************************************************************)
(* C8.  calculate_high_brightness(w) is 10 for w <= 20, 12 for             *)
(* 20 < w <= 24, 16 for 24 < w <= 36, 18 for 36 < w <= 60 and 20 above 60; *)
(* it is non-decreasing in w and never exceeds 20.                         *)
(***************************************************************************)
C8_BrightnessStepFunction ==
    Called("calculate_high_brightness") =>
        LET w == out.input_wattage
            r == out.result
        IN  /\ w <= 2000 => r = 10
            /\ (2000 < w /\ w <= 2400) => r = 12
            /\ (2400 < w /\ w <= 3600) => r = 16
            /\ (3600 < w /\ w <= 6000) => r = 18
            /\ w > 6000 => r = 20
            /\ r <= 20
            /\ \A v \in WattageChoices :
                   v <= w => calculate_high_brightness(v) <= r

(* exactly 20 W was mapped to 10 W *)
C8_Witness ==
    /\ Called("calculate_high_brightness")
    /\ out.input_wattage = 2000
    /\ out.result = 10

(***************************************************************************)
(* C9.  calculate_duration(start, end) is (end_minutes - start_minutes) /  *)
(* 60 when end_minutes >= start_minutes and (end_minutes + 1440 -          *)
(* start_minutes) / 60 otherwise: 23:00 to 01:00 gives 2.0, 08:00 to 23:00 *)
(* gives 15.0, equal times give 0.0, and the result lies in [0, 24).       *)
(***************************************************************************)
C9_DurationAcrossMidnight ==
    Called("calculate_duration") =>
        LET s == Minutes(out.start)
            e == Minutes(out.end)
            r == out.result
        IN  /\ r.den = 60
            /\ e >= s => r.num = e - s
            /\ e < s => r.num = e + 1440 - s
            /\ 0 <= r.num /\ r.num < 24 * r.den
            /\ (out.start = At(23, 0) /\ out.end = At(1, 0)) => r.num = 2 * r.den
            /\ (out.start = At(8, 0) /\ out.end = At(23, 0)) => r.num = 15 * r.den
            /\ out.start = out.end => r.num = 0

(* 23:00 to 01:00 was measured as two hours *)
C9_Witness ==
    /\ Called("calculate_duration")
    /\ out.start = At(23, 0)
    /\ out.end = At(1, 0)
    /\ out.result.num = 120


(***************************************************************************)
(* C11.  When the smart system's daily consumption exceeds the original    *)
(* system's (every field set, total_lights at least 1), calculate_savings  *)
(* returns a result whose daily_savings_kwh, annual_savings_kwh,           *)
(* annual_savings_sgd, per_light_annual_savings and six_year_savings are   *)
(* the 2-decimal roundings of the negative values: nothing is clamped to   *)
(* zero and the call neither raises nor returns None.                      *)
(***************************************************************************)
SmartExceedsOriginal ==
    /\ ~has_none(data)
    /\ Val(data.total_lights) >= 1
    /\ ExactSmart(Len(Schedule)) > ExactOriginal(Len(Schedule))

C11_NegativeSavingsReported ==
    (Returned /\ SmartExceedsOriginal) =>
        /\ ret.kind = "result"
        /\ LET n      == Len(Schedule)
               daily  == FromRatio((ExactOriginal(n) - ExactSmart(n)) * CentScale,
                                   HoursScale * PercentScale * WattsPerKilowatt)
               annual == Times(daily, DaysPerYear)
               sgd    == Over(Times(annual, Val(data.electricity_rate)), CentScale)
               Reports(field, exact) ==
                   /\ Nearest(ret[field], exact)
                   /\ ret[field] <= 0
           IN  /\ Reports("daily_savings_kwh", daily)
               /\ Reports("annual_savings_kwh", annual)
               /\ Reports("annual_savings_sgd", sgd)
               /\ Reports("per_light_annual_savings",
                          Over(sgd, Val(data.total_lights)))
               /\ Reports("six_year_savings", Times(sgd, Years))

(* a result all five of whose savings fields are below zero *)
C11_Witness ==
    /\ Returned
    /\ SmartExceedsOriginal
    /\ ret.kind = "result"
    /\ ret.daily_savings_kwh < 0
    /\ ret.annual_savings_kwh < 0
    /\ ret.annual_savings_sgd < 0
    /\ ret.per_light_annual_savings < 0
    /\ ret.six_year_savings < 0


(***************************************************************************)
(* C12.  When high_power_ratio is unset in the data and every other field  *)
(* is set, calculate_savings computes with high_power_ratio = 0.25 (and    *)
(* low_power_ratio = 0.75).  Fails: __init__ stores None under the key, so *)
(* the test "None in self.data.values()" returns None before the default   *)
(* of data.get('high_power_ratio', 0.25) can apply.                        *)
(***************************************************************************)
RatioUnsetOnly ==
    /\ data.high_power_ratio = InitData.high_power_ratio
    /\ \A g \in Fields \ {"high_power_ratio"} : data[g] # None

C12_DefaultRatioWhenUnset ==
    (Returned /\ RatioUnsetOnly) =>
        ret = totals([data EXCEPT !.high_power_ratio = Some(DefaultHighPowerRatio)])

(***************************************************************************)
(* C13.  With every field set and total_lights zero or negative,           *)
(* calculate_savings ends in a division error and never returns a result   *)
(* with a numeric per_light_annual_savings.  Fails for a negative          *)
(* total_lights: only a zero divisor raises, a negative one divides and    *)
(* the result is returned with the sign of the per-light value reversed.   *)
(***************************************************************************)
C13_NonPositiveLightsRaise ==
    (Returned /\ ~has_none(data) /\ Val(data.total_lights) <= 0) =>
        ret = Raise("ZeroDivisionError")

(* the part of C13 that holds: a total_lights of zero raises the error *)
C13_ZeroLightsRaise ==
    (Returned /\ ~has_none(data) /\ Val(data.total_lights) = 0) =>
        ret = Raise("ZeroDivisionError")


(***************************************************************************)
(* Vocabulary of the properties of the intake flow.                        *)
(***************************************************************************)
FullDay == HoursPerDay * HoursScale

WithinTolerance(total) == Abs(total - FullDay) <= 1

(* the last run was the Next button of step k *)
WasNext(k) == out.call = "Next" /\ out.at = k

(***************************************************************************)
(* C14.  In every reachable state of the intake flow a schedule stored by  *)
(* the Next button of step 5 has durations whose sum is within 0.1 hour of *)
(* 24.0, and a press of that button stores the schedule and moves to step  *)
(* 6 only when abs(total_duration - 24) <= 0.1.                            *)
(***************************************************************************)
C14_StoredScheduleSumsTo24 ==
    /\ [](data.operation_schedule # InitData.operation_schedule
              => WithinTolerance(TotalDuration(Schedule)))
    /\ [][(out'.call = "Next" /\ out'.at = 5 /\ <<step, data>>' # <<step, data>>)
              => /\ WithinTolerance(out'.total_duration)
                 /\ step = 5 /\ step' = 6
                 /\ data' = [data EXCEPT !.operation_schedule =
                                Some(schedule(out'.periods_data))]]_vars

(* a schedule of 4.2 + 19.9 = 24.1 hours was accepted and stored *)
C14_Witness ==
    /\ step = 6
    /\ WasNext(5)
    /\ out.accepted
    /\ out.total_duration = FullDay + 1
    /\ Schedule = schedule(out.periods_data)
    /\ TotalDuration(Schedule) = FullDay + 1

(***************************************************************************)
(* C15.  Every schedule the flow accepts at step 5 consists of periods     *)
(* whose start-to-end intervals partition the day: each minute of the day  *)
(* lies in exactly one period.  Fails: step 5 compares only the sum of the *)
(* rounded durations with 24, so two periods that are both 00:00-12:00 are *)
(* accepted (and the default single period 00:00-23:59 leaves the last     *)
(* minute of the day out).                                                 *)
(***************************************************************************)
MinuteOfDay(t) == t.hour * MinutesPerHour + t.minute

(* minute m of the day lies in the interval from start to end, an end      *)
(* before the start being on the next day                                  *)
Covers(p, m) ==
    LET from == MinuteOfDay(p.start)
        to   == MinuteOfDay(p.end)
    IN  IF to < from THEN m >= from \/ m < to
        ELSE from <= m /\ m < to

PartitionsDay(pd) ==
    \A m \in 0..(HoursPerDay * MinutesPerHour - 1) :
        Cardinality({i \in 1..Len(pd) : Covers(pd[i], m)}) = 1

C15_AcceptedPeriodsPartitionDay ==
    (WasNext(5) /\ out.accepted) => PartitionsDay(out.periods_data)

(***************************************************************************)
(* C16.  Whenever the flow is at step 7, every field of the calculator's   *)
(* data has been filled in, and the call of calculate_savings that step 7  *)
(* makes never returns None.                                               *)
(***************************************************************************)
C16_AllFieldsSetAtStep7 ==
    step = 7 =>
        /\ \A f \in Fields : ~IsUnset(f) /\ data[f] # None
        /\ Returned => ret # ReturnNone /\ ret = calculate_savings(data)

(* step 7 computed a result in a session that went around once before *)
C16_Witness ==
    /\ step = 7
    /\ ret.kind = "result"
    /\ restarted_with # None
    /\ \A f \in Fields : ~IsUnset(f)

(***************************************************************************)
(* C17.  Whenever the flow is at step 7, also after Calculate Again and    *)
(* other values entered, the stored parameters are inside their domains:   *)
(* total_lights in [1, 10000], original_wattage in [1, 400],               *)
(* electricity_rate in [0.1, 1.0], high wattage in [5, 20], low wattage in *)
(* [1, 5], high_power_ratio in [0.10, 0.50], and every period's lights in  *)
(* [0, total_lights] for the total_lights stored now.                      *)
(***************************************************************************)
InDomains(d) ==
    /\ ~has_none(d)
    /\ Val(d.total_lights) \in 1..10000
    /\ Val(d.original_wattage) \in 1..400
    /\ Val(d.electricity_rate) \in 10..100
    /\ Val(d.smart_light_high_wattage) \in 5..20
    /\ Val(d.smart_light_low_wattage) \in 1..5
    /\ Val(d.high_power_ratio) \in 10..50
    /\ \A i \in 1..Len(Val(d.operation_schedule)) :
           Val(d.operation_schedule)[i].lights \in 0..Val(d.total_lights)

C17_ParametersInDomainAtStep7 == step = 7 => InDomains(data)

(* step 7 computed a result for 1 light in total, all of them on, after a  *)
(* round with 3 lights in total                                            *)
C17_Witness ==
    /\ step = 7
    /\ ret.kind = "result"
    /\ restarted_with = Some(3)
    /\ Val(data.total_lights) = 1
    /\ \E i \in 1..Len(Schedule) : Schedule[i].lights = 1

(***************************************************************************)
(* C18.  Whenever step 7 is shown, annual_savings_sgd is not zero and the  *)
(* Direct Purchase payback period is computed without a division by zero.  *)
(* Fails: the lights input of step 5 accepts 0, a schedule whose periods   *)
(* all have 0 lights on is accepted, its annual_savings_sgd is 0.0 and the *)
(* division raises ZeroDivisionError.                                      *)
(***************************************************************************)
C18_PaybackNeverDividesByZero ==
    (step = 7 /\ out.call = "render") =>
        /\ ret.kind = "result"
        /\ ret.annual_savings_sgd # 0
        /\ out.shown.kind = "value"

(***************************************************************************)
(* C19.  A Next that is rejected (empty project name at step 0, a value    *)
(* validate_input refuses at steps 1 to 3, an original wattage outside     *)
(* [10, 200] at step 2, a total outside 24 +/- 0.1 at step 5) leaves the   *)
(* step and every field of the data as they were; the step stays within    *)
(* 0..7 and the number of periods within 1..5.                             *)
(***************************************************************************)
Refused(key, value) == ~validate_input(key, Number(value)).valid

(* the conditions under which the Next that out records is to be rejected *)
ToBeRejected(o) ==
    \/ o.at = 0 /\ o.project_name = ""
    \/ o.at = 1 /\ Refused("total_lights", o.total_lights * CentScale)
    \/ o.at = 2 /\ \/ Refused("original_wattage", o.original_wattage * CentScale)
                   \/ o.original_wattage < 10
                   \/ o.original_wattage > 200
    \/ o.at = 3 /\ Refused("electricity_rate", o.electricity_rate)
    \/ o.at = 5 /\ ~WithinTolerance(o.total_duration)

C19_RejectedNextChangesNothing ==
    /\ [](step \in 0..7 /\ periods \in 1..MaxPeriods)
    /\ []((out.call = "Next" /\ ToBeRejected(out)) => ~out.accepted)
    /\ [][(out'.call = "Next" /\ ~out'.accepted)
              => (step' = step /\ data' = data)]_vars

(* 201 W was rejected at step 2 and the 10 W stored earlier is still there *)
C19_Witness ==
    /\ WasNext(2)
    /\ ~out.accepted
    /\ out.original_wattage = 201
    /\ step = 2
    /\ data.original_wattage = Some(10)
    /\ periods = MaxPeriods

====
